---- MODULE Spec2Model ----
(***************************************************************************)
(* Model of pypub's EpubBuilder (src/pypub/builder.py): the coordinator    *)
(* that scaffolds a working directory, renders chapters into it, renders   *)
(* the index documents and zips the tree into an .epub archive.            *)
(*                                                                         *)
(* The state is kept per coordinator; under Spec one coordinator acts.     *)
(* The filesystem is a function from the base directories that exist to    *)
(* the files below them; a file is named by its path relative to the base, *)
(* a sequence of path components.  Archives are written to directories     *)
(* outside the working directory.  Every action is one public method of    *)
(* EpubBuilder, taken whole, together with the ways it can fail.           *)
(***************************************************************************)
EXTENDS Integers, Sequences, FiniteSets, TLC

(* ---------------------------------------------------------------- bounds *)
MaxCalls == 2        \* render_chapter calls one coordinator accepts
MaxOps == 3          \* method calls made in one behaviour
MaxFaults == 1       \* failures of the environment (a template, a file, the factory) in one behaviour

(* ------------------------------------------------------------- constants *)
Builders == {"b1", "b2"}
Active == {"b1"}     \* the coordinators that act under Spec

NoDirs == "none"     \* self.dirs = None
WorkDir == "work"    \* a caller-chosen EpubSpec.epub_dir
NoEpubDir == ""      \* EpubSpec.epub_dir = None

Title == <<"Test Book">>          \* EpubSpec.title
EpubExt == ".epub"
ZipExt == ".zip"
Cwd == "."

\* stylesheets a caller may name in EpubSpec.css_paths; the second is not
\* on disk, so copying it fails
UserCss == <<"user.css">>
MissingCss == <<"missing.css">>
CssChoices == {UserCss, MissingCss}

\* the (assignment, chapter) pairs a caller hands to render_chapter; a link
\* is given as its path components, and is joined to the OEBPS directory
Calls ==
  { [assign |-> [link |-> <<"ch1.xhtml">>, play_order |-> 2], chapter |-> "p1"],
    [assign |-> [link |-> <<"ch1.xhtml">>, play_order |-> 1], chapter |-> "p2"],
    [assign |-> [link |-> <<"mimetype">>, play_order |-> 1], chapter |-> "p1"],
    [assign |-> [link |-> <<"..", "extra.xhtml">>, play_order |-> 2], chapter |-> "p2"],
    [assign |-> [link |-> <<"nodir", "ch.xhtml">>, play_order |-> 1], chapter |-> "p1"] }

\* destinations handed to compress / finalize; NoDest is fpath=None
NoDest == [dir |-> "", name |-> <<>>]
Dests ==
  { NoDest,
    [dir |-> "out", name |-> <<"book", EpubExt>>],
    [dir |-> "out", name |-> <<"my", EpubExt, ".bak">>] }

VARIABLES epub, template, dirs, chapters, fs, out, scope, last, okcalls, nops, nfaults

vars == <<epub, template, dirs, chapters, fs, out, scope, last, okcalls, nops, nfaults>>

(* --------------------------------------------------------------- helpers *)
Last(s) == s[Len(s)]
Front(s) == SubSeq(s, 1, Len(s) - 1)

\* the names tempfile.mkdtemp() can give a coordinator
TmpName(b, i) == "tmp_" \o b \o "_" \o ToString(i)
TmpNames(b) == {TmpName(b, i) : i \in 1..(MaxOps + 1)}

\* tempfile.mkdtemp(): a directory that does not exist yet
MkDTemp(b) ==
  TmpName(b, CHOOSE i \in 1..(MaxOps + 1) :
               TmpName(b, i) \notin DOMAIN fs /\ \A j \in 1..(i - 1) : TmpName(b, j) \in DOMAIN fs)

\* epub_dirs: basedir = basedir or tempfile.mkdtemp()
BaseOf(b) == IF epub.epub_dir = NoEpubDir THEN MkDTemp(b) ELSE epub.epub_dir

\* the directories epub_dirs makes below the base (relative paths)
LayoutDirs == {<<>>, <<"OEBPS">>, <<"META-INF">>, <<"OEBPS", "images">>, <<"OEBPS", "styles">>}

\* a function without the key k
Without(f, k) == [x \in DOMAIN f \ {k} |-> f[x]]

\* a function with key k set to v
With(f, k, v) == [x \in DOMAIN f \cup {k} |-> IF x = k THEN v ELSE f[x]]

\* the record left in `last` by an operation
Result(op, b, res, retdirs, retpath) ==
  [op |-> op, b |-> b, res |-> res, retdirs |-> retdirs, retpath |-> retpath, note |-> "",
   arg |-> [dir |-> "", name |-> <<>>]]

\* the same, with a note of the branch the operation took
Noted(r, note) == [r EXCEPT !.note = note]

\* the same, with the destination the operation was given
Given(r, fpath) == [r EXCEPT !.arg = fpath]

\* an exception leaving the method swallowed instead of raised
Raised_m(op, b, err) == Result(op, b, "ok", NoDirs, NoDest)

\* an exception of a callee leaves the method: nothing catches it
Raised(op, b, err) == Result(op, b, err, NoDirs, NoDest)

\* the guard returning instead of raising
NotBegun_m(op, b) == Result(op, b, "ok", NoDirs, NoDest)

\* raise RuntimeError('cannot ... before `begin`')
NotBegun(op, b) == Result(op, b, "RuntimeError", NoDirs, NoDest)

\* an action that meets `n` failures of the environment
Faults(n) == nfaults + n <= MaxFaults /\ nfaults' = nfaults + n

Init ==
  /\ epub \in [epub_dir : {NoEpubDir, WorkDir}, css_paths : CssChoices]
  /\ template = [b \in Builders |-> FALSE]
  /\ dirs = [b \in Builders |-> NoDirs]
  /\ chapters = [b \in Builders |-> <<>>]
  /\ fs = <<>>
  /\ out = <<>>
  /\ scope = [b \in Builders |-> "outside"]
  /\ last = Result("init", "b1", "ok", NoDirs, NoDest)
  /\ okcalls = [b \in Builders |-> <<>>]
  /\ nops = 0
  /\ nfaults = 0

(* ----------------------------------------------------------------- begin *)
\* the files begin() writes after epub_dirs, in the order it writes them
BeginSteps ==
  << [path |-> <<"mimetype">>, content |-> "static"],
     [path |-> <<"META-INF", "container.xml">>, content |-> "static"],
     [path |-> <<"OEBPS", "styles", "coverpage.css">>, content |-> "static"],
     [path |-> <<"OEBPS", "styles", "styles.css">>, content |-> "static"] >>
  \o [i \in 1..Len(epub.css_paths) |->
        [path |-> <<"OEBPS", "styles", epub.css_paths[i]>>, content |-> "css"]]
  \o << [path |-> <<"OEBPS", "coverpage.xhtml">>, content |-> "cover"] >>

\* a step that cannot succeed: the source file of the copy is not on disk
StepMustFail(i) == BeginSteps[i].path = <<"OEBPS", "styles">> \o MissingCss

\* the files of the first n steps
FilesOfSteps(n) ==
  [p \in {BeginSteps[i].path : i \in 1..n} |->
     BeginSteps[CHOOSE i \in 1..n : BeginSteps[i].path = p /\ \A j \in (i+1)..n : BeginSteps[j].path # p].content]

\* the directories made with exist_ok
EpubDirsFails_m(b) == FALSE

\* epub_dirs (os.makedirs(oebps) first): raises when the directory is there
EpubDirsFails(b) == BaseOf(b) \in DOMAIN fs

\* begin without its early return
BeginReturnsEarly_m(b) == FALSE

\* `if self.dirs: return self.dirs`
BeginReturnsEarly(b) == dirs[b] # NoDirs

\* the tree begin() leaves when it completes `stop` of its steps; the cover
\* is opened for writing before it is rendered, so when the last step fails
\* it is there, empty
BeginFiles(stop) ==
  IF stop = Len(BeginSteps) - 1
    THEN With(FilesOfSteps(stop), BeginSteps[Len(BeginSteps)].path, "empty")
    ELSE FilesOfSteps(stop)

\* begin() stopping after `stop` steps met a failure of the environment,
\* unless it stopped at a stylesheet that is not there
BeginFaults(stop) ==
  IF stop = Len(BeginSteps) \/ StepMustFail(stop + 1) THEN 0 ELSE 1

\* begin(), called as `op` (begin itself, or __enter__)
BeginEffect(op, b, tfail, stop) ==
  IF ~template[b] /\ tfail
    THEN \* jinja_env.get_template raises
         /\ last' = Result(op, b, "TemplateError", NoDirs, NoDest)
         /\ Faults(1)
         /\ UNCHANGED <<template, dirs, fs>>
    ELSE /\ template' = [template EXCEPT ![b] = TRUE]
         /\ IF BeginReturnsEarly(b)
              THEN /\ last' = Noted(Result(op, b, "ok", dirs[b], NoDest), "early")
                   /\ Faults(0)
                   /\ UNCHANGED <<dirs, fs>>
              ELSE IF EpubDirsFails(b)
                THEN /\ last' = Result(op, b, "OSError", NoDirs, NoDest)
                     /\ Faults(0)
                     /\ UNCHANGED <<dirs, fs>>
                ELSE /\ \A i \in 1..stop : ~StepMustFail(i)
                     /\ Faults(BeginFaults(stop))
                     /\ dirs' = [dirs EXCEPT ![b] = BaseOf(b)]
                     /\ fs' = With(fs, BaseOf(b), BeginFiles(stop))
                     /\ last' = IF stop = Len(BeginSteps)
                                  THEN Result(op, b, "ok", BaseOf(b), NoDest)
                                  ELSE Result(op, b, "OSError", NoDirs, NoDest)

\* one more method call made
Called == nops < MaxOps /\ nops' = nops + 1

begin(b) ==
  /\ Called
  /\ \E tfail \in BOOLEAN, stop \in 0..Len(BeginSteps) :
       BeginEffect("begin", b, tfail, stop)
  /\ UNCHANGED <<epub, chapters, out, scope, okcalls>>

(* --------------------------------------------------------------- cleanup *)
\* cleanup forgetting the layout without removing the directory
RmTree_m(fsv, base) == fsv

\* shutil.rmtree(self.dirs.basedir, ignore_errors=True)
RmTree(fsv, base) == Without(fsv, base)

\* cleanup(), called as `op` (cleanup itself, or __exit__)
CleanupEffect(op, b) ==
  /\ IF dirs[b] # NoDirs
       THEN /\ fs' = RmTree(fs, dirs[b])
            /\ dirs' = [dirs EXCEPT ![b] = NoDirs]
            /\ last' = Noted(Result(op, b, "ok", NoDirs, NoDest), "removed")
       ELSE /\ last' = Noted(Result(op, b, "ok", NoDirs, NoDest), "noop")
            /\ UNCHANGED <<fs, dirs>>
  /\ Faults(0)

cleanup(b) ==
  /\ Called
  /\ CleanupEffect("cleanup", b)
  /\ UNCHANGED <<epub, template, chapters, out, scope, okcalls>>

(* ------------------------------------------------------- context manager *)
\* `with EpubBuilder(spec) as b:` -- __enter__ calls begin(); when it raises
\* the with statement is left at once and __exit__ is not called
enter(b) ==
  /\ Called
  /\ scope[b] # "inside"
  /\ \E tfail \in BOOLEAN, stop \in 0..Len(BeginSteps) :
       BeginEffect("__enter__", b, tfail, stop)
  /\ scope' = [scope EXCEPT ![b] = IF last'.res = "ok" THEN "inside" ELSE "left"]
  /\ UNCHANGED <<epub, chapters, out, okcalls>>

\* the body of the with statement ends, normally or by an exception
exit(b) ==
  /\ Called
  /\ scope[b] = "inside"
  /\ CleanupEffect("__exit__", b)
  /\ scope' = [scope EXCEPT ![b] = "left"]
  /\ UNCHANGED <<epub, template, chapters, out, okcalls>>

(* -------------------------------------------------------- render_chapter *)
\* `if not self.dirs or not self.template: raise RuntimeError`
CanRender(b) == dirs[b] # NoDirs /\ template[b]

\* what the operating system makes of a path: "x/.." cancels
RECURSIVE Resolve(_)
Resolve(path) ==
  IF \E i \in 2..Len(path) : path[i] = ".."
    THEN LET i == CHOOSE k \in 2..Len(path) : path[k] = ".." /\ \A j \in 2..(k-1) : path[j] # ".."
         IN Resolve(SubSeq(path, 1, i - 2) \o SubSeq(path, i + 1, Len(path)))
    ELSE path

\* fpath = os.path.join(self.dirs.oebps, assign.link)
ChapterPath(assign) == Resolve(<<"OEBPS">> \o assign.link)

\* open(fpath, 'wb') raises when the directory of fpath does not exist
OpenFails(path) == Front(path) \notin LayoutDirs

\* the file kept as it is when it exists
WriteFile_m(tree, path, content) == IF path \in DOMAIN tree THEN tree ELSE With(tree, path, content)

\* with open(fpath, 'wb') as f: f.write(content)
WriteFile(tree, path, content) == With(tree, path, content)

render_chapter(b) ==
  \E call \in Calls, rfail \in BOOLEAN :
    LET path == ChapterPath(call.assign) IN
    /\ Called
    /\ IF ~CanRender(b)
         THEN /\ last' = NotBegun("render_chapter", b)
              /\ Faults(0)
              /\ UNCHANGED <<chapters, fs, okcalls>>
         ELSE /\ Len(chapters[b]) < MaxCalls
              /\ chapters' = [chapters EXCEPT ![b] = Append(@, call)]
              /\ IF rfail
                   THEN \* self.factory.render raises
                        /\ last' = Raised("render_chapter", b, "RenderError")
                        /\ Faults(1)
                        /\ UNCHANGED <<fs, okcalls>>
                   ELSE IF OpenFails(path)
                     THEN /\ last' = Raised("render_chapter", b, "OSError")
                          /\ Faults(0)
                          /\ UNCHANGED <<fs, okcalls>>
                     ELSE /\ fs' = [fs EXCEPT ![dirs[b]] = WriteFile(@, path, call.chapter)]
                          /\ last' = Result("render_chapter", b, "ok", NoDirs, NoDest)
                          /\ Faults(0)
                          /\ okcalls' = [okcalls EXCEPT ![b] = Append(@, call)]
    /\ UNCHANGED <<epub, template, dirs, out, scope>>

(* ----------------------------------------------------------------- index *)
\* `if not self.dirs: raise RuntimeError` (index and compress)
Began(b) == dirs[b] # NoDirs

\* render_template writes into self.dirs.oebps, book.ncx first
IndexDocs == << <<"OEBPS", "book.ncx">>, <<"OEBPS", "book.opf">> >>

\* index() writing no document
IndexTree_m(tree, stop) == tree

\* the tree after index() has written `stop` of its two documents
IndexTree(tree, stop) ==
  [p \in DOMAIN tree \cup {IndexDocs[i] : i \in 1..stop} |->
     IF p \in {IndexDocs[i] : i \in 1..stop} THEN "index" ELSE tree[p]]

IndexResult(stop) == IF stop = Len(IndexDocs) THEN "ok" ELSE "TemplateError"

\* index() stopping short of its last document met a failure
IndexFaults(stop) == IF stop = Len(IndexDocs) THEN 0 ELSE 1

index(b) ==
  /\ Called
  /\ IF ~Began(b)
       THEN /\ last' = NotBegun("index", b)
            /\ Faults(0)
            /\ UNCHANGED fs
       ELSE \E stop \in 0..Len(IndexDocs) :
              /\ Faults(IndexFaults(stop))
              /\ fs' = [fs EXCEPT ![dirs[b]] = IndexTree(@, stop)]
              /\ last' = Result("index", b, IndexResult(stop), NoDirs, NoDest)
  /\ UNCHANGED <<epub, template, dirs, chapters, out, scope, okcalls>>

(* -------------------------------------------------------------- compress *)
\* name.rsplit('.epub', 1)[0] on a name given as its pieces
RSplitEpub(name) ==
  IF \E i \in 1..Len(name) : name[i] = EpubExt
    THEN LET i == CHOOSE k \in 1..Len(name) : name[k] = EpubExt /\ \A j \in (k+1)..Len(name) : name[j] # EpubExt
         IN SubSeq(name, 1, i - 1)
    ELSE name

\* fname / fpath as compress resolves them
ArchiveName(fpath) == RSplitEpub(IF fpath # NoDest THEN fpath.name ELSE Title) \o <<EpubExt>>
ArchivePath(fpath) == [dir |-> IF fpath # NoDest THEN fpath.dir ELSE Cwd, name |-> ArchiveName(fpath)]

\* the archive written straight to its final name
ZipPath_m(fpath) == ArchivePath(fpath)

\* fzip = fpath.rsplit('.epub', 1)[0] + '.zip'
ZipPath(fpath) == [dir |-> ArchivePath(fpath).dir, name |-> RSplitEpub(ArchivePath(fpath).name) \o <<ZipExt>>]

\* os.walk(basedir): the directories that hold files, as paths from basedir on
WalkRoots(base, tree) == {<<base>> \o Front(p) : p \in DOMAIN tree}

\* relpath = root.split(self.dirs.basedir, 1)[1]
RelPath(base, root) == SubSeq(root, 2, Len(root))

\* the member named by its file name alone
Local_m(base, root, file) == <<file>>

\* local = os.path.join(relpath, file), the member's name in the archive
Local(base, root, file) == RelPath(base, root) \o <<file>>

\* every member written with the archive's default method
Method_m(file) == "deflated"

\* method = zipfile.ZIP_STORED if file == 'mimetype' else None
Method(file) == IF file = "mimetype" THEN "stored" ELSE "deflated"

\* for root, _, files in os.walk(...): the files of one directory
FilesIn(base, tree, root) == {Last(p) : p \in {q \in DOMAIN tree : <<base>> \o Front(q) = root}}

\* the members zipf.write adds for the tree below base
Members(base, tree) ==
  UNION { {[name |-> Local(base, root, file), method |-> Method(file)] : file \in FilesIn(base, tree, root)}
          : root \in WalkRoots(base, tree) }

\* os.walk is top-down and lists a directory in the order the filesystem
\* gives: the member written first is any file of the first directory that
\* holds one
RECURSIVE FirstIn(_, _)
FirstIn(tree, d) ==
  LET direct == {p \in DOMAIN tree : Front(p) = d}
      subs == {s \in LayoutDirs : Len(s) = Len(d) + 1 /\ SubSeq(s, 1, Len(d)) = d}
  IN IF direct # {} THEN direct ELSE UNION {FirstIn(tree, s) : s \in subs}

NoMember == <<>>
FirstMembers(tree) == IF DOMAIN tree = {} THEN {NoMember} ELSE FirstIn(tree, <<>>)

\* the ways compress can end: the archive opened, written, closed and renamed;
\* ZipFile() raising; zipf.write raising; os.rename raising
CompressOutcomes == {"ok", "open_fail", "write_fail", "rename_fail"}

\* the destination files after compress
CompressOut(outv, base, tree, fpath, outcome, first) ==
  LET whole == [complete |-> TRUE, first |-> first, members |-> Members(base, tree)]
      partial == [complete |-> FALSE, first |-> NoMember, members |-> {}]
  IN CASE outcome = "ok" -> With(Without(outv, ZipPath(fpath)), ArchivePath(fpath), whole)
       [] outcome = "open_fail" -> outv
       [] outcome = "write_fail" -> With(outv, ZipPath(fpath), partial)
       [] outcome = "rename_fail" -> With(outv, ZipPath(fpath), whole)

CompressResult(op, b, fpath, outcome) ==
  IF outcome = "ok" THEN Given(Result(op, b, "ok", NoDirs, ArchivePath(fpath)), fpath)
                    ELSE Given(Raised(op, b, "OSError"), fpath)

CompressFaults(outcome) == IF outcome = "ok" THEN 0 ELSE 1

compress(b) ==
  /\ Called
  /\ IF ~Began(b)
       THEN /\ last' = NotBegun("compress", b)
            /\ Faults(0)
            /\ UNCHANGED out
       ELSE \E fpath \in Dests, outcome \in CompressOutcomes, first \in FirstMembers(fs[dirs[b]]) :
              /\ Faults(CompressFaults(outcome))
              /\ out' = CompressOut(out, dirs[b], fs[dirs[b]], fpath, outcome, first)
              /\ last' = CompressResult("compress", b, fpath, outcome)
  /\ UNCHANGED <<epub, template, dirs, chapters, fs, scope, okcalls>>

(* -------------------------------------------------------------- finalize *)
\* finalize compressing whatever index() did
FinalizeCompresses_m(indexres) == TRUE

\* self.index() raising ends finalize before self.compress(fpath)
FinalizeCompresses(indexres) == indexres = "ok"

finalize(b) ==
  /\ Called
  /\ IF ~Began(b)
       THEN /\ last' = NotBegun("finalize", b)
            /\ Faults(0)
            /\ UNCHANGED <<fs, out>>
       ELSE \E stop \in 0..Len(IndexDocs) :
              LET tree == IndexTree(fs[dirs[b]], stop) IN
              /\ fs' = [fs EXCEPT ![dirs[b]] = tree]
              /\ IF FinalizeCompresses(IndexResult(stop))
                   THEN \E fpath \in Dests, outcome \in CompressOutcomes, first \in FirstMembers(tree) :
                          /\ Faults(IndexFaults(stop) + CompressFaults(outcome))
                          /\ out' = CompressOut(out, dirs[b], tree, fpath, outcome, first)
                          /\ last' = CompressResult("finalize", b, fpath, outcome)
                   ELSE /\ Faults(IndexFaults(stop))
                        /\ last' = Result("finalize", b, IndexResult(stop), NoDirs, NoDest)
                        /\ UNCHANGED out
  /\ UNCHANGED <<epub, template, dirs, chapters, scope, okcalls>>

Next ==
  \E b \in Active :
    \/ begin(b)
    \/ render_chapter(b)
    \/ index(b)
    \/ compress(b)
    \/ finalize(b)
    \/ cleanup(b)
    \/ enter(b)
    \/ exit(b)

Spec == Init /\ [][Next]_vars

\* two coordinators built from one EpubSpec that names a working directory
InitShared == Init /\ epub.epub_dir = WorkDir

NextShared ==
  \E b \in Builders :
    \/ begin(b)
    \/ index(b)
    \/ cleanup(b)

SpecShared == InitShared /\ [][NextShared]_vars

(* ---------------------------------------------------------------- claims *)
\* the step is a call of `op` on coordinator b
IsCall(op, b) == last'.op = op /\ last'.b = b /\ nops' = nops + 1

\* the last call produced an archive: compress or finalize returned its path
Produced == last.op \in {"compress", "finalize"} /\ last.res = "ok"
Archive == out[last.retpath]
MemberNames(a) == {m.name : m \in a.members}
MarkerFile == <<"mimetype">>

\* C1: on a coordinator that holds no layout, render_chapter, index and
\* compress raise RuntimeError and do no work: no file is written, no archive
\* is created, nothing is recorded and the coordinator stays uninitialized.
C1_NotBegunRejected ==
  [][\A b \in Builders : \A op \in {"render_chapter", "index", "compress"} :
       (dirs[b] = NoDirs /\ IsCall(op, b)) =>
         /\ last'.res = "RuntimeError"
         /\ fs' = fs /\ out' = out /\ chapters' = chapters
         /\ dirs'[b] = NoDirs]_vars

C1_Witness ==
  /\ last.op = "compress" /\ last.res = "RuntimeError"
  /\ ~template[last.b] /\ dirs[last.b] = NoDirs /\ nops = 1

\* C2: a begin() called right after a successful begin() returns the same
\* layout without raising, and creates, copies and renders nothing.
C2_BeginIdempotent ==
  [][\A b \in Builders :
       ( /\ last.op \in {"begin", "__enter__"} /\ last.b = b /\ last.res = "ok"
         /\ IsCall("begin", b) ) =>
         /\ last'.res = "ok"
         /\ last'.retdirs = last.retdirs
         /\ dirs' = dirs /\ fs' = fs /\ template' = template]_vars

C2_Witness ==
  /\ last.op = "begin" /\ last.res = "ok" /\ last.note = "early" /\ nops = 2
  /\ last.retdirs = dirs[last.b]
  /\ DOMAIN fs[dirs[last.b]] = {BeginSteps[i].path : i \in 1..Len(BeginSteps)}

\* C3 (as claimed): the accumulator holds exactly the successful
\* render_chapter calls, in call order.
C3_AccumulatorIsSuccessfulCalls ==
  \A b \in Builders : chapters[b] = okcalls[b]

\* C4 (as claimed): in every archive compress() produces, mimetype is the
\* first member written and it is stored.
C4_MarkerFirstAndStored ==
  Produced =>
    /\ Archive.first = MarkerFile
    /\ [name |-> MarkerFile, method |-> "stored"] \in Archive.members

C7_ScopeLeftCleans ==
  \A b \in Builders :
    (scope[b] = "left" /\ last.b = b /\ last.op \in {"__enter__", "__exit__"}) =>
      /\ dirs[b] = NoDirs
      /\ \A d \in DOMAIN fs : d \notin TmpNames(b) /\ \E c \in Builders \ {b} : dirs[c] = d

\* C8: cleanup() removes the working directory of a begun build, and on a
\* coordinator that holds no layout it raises nothing and changes nothing.
C8_Cleanup ==
  [][\A b \in Builders :
       IsCall("cleanup", b) =>
         /\ last'.res = "ok"
         /\ dirs'[b] = NoDirs
         /\ IF dirs[b] # NoDirs
              THEN dirs[b] \notin DOMAIN fs'
              ELSE /\ fs' = fs /\ dirs' = dirs /\ out' = out
                   /\ chapters' = chapters /\ template' = template]_vars

C8_Witness ==
  /\ last.op = "cleanup" /\ last.note = "noop" /\ last.res = "ok"
  /\ template[last.b] /\ nops = 3 /\ fs = <<>>

\* C9 (as claimed): after cleanup() the coordinator is as newly constructed:
\* no layout and no accumulated pages.
C9_CleanupResets ==
  \A b \in Builders :
    (last.b = b /\ last.op \in {"cleanup", "__exit__"}) =>
      (dirs[b] = NoDirs /\ chapters[b] = <<>>)

\* C10: finalize() runs index() then compress() and returns the archive's
\* path: the archive holds the navigation and manifest documents, and when
\* index() raises no archive is written.
C10_Finalize ==
  [][\A b \in Builders :
       IsCall("finalize", b) =>
         /\ last'.res = "ok" =>
              /\ last'.retpath \in DOMAIN out'
              /\ out'[last'.retpath].complete
              /\ {IndexDocs[i] : i \in 1..Len(IndexDocs)} \subseteq MemberNames(out'[last'.retpath])
         /\ last'.res \in {"RuntimeError", "TemplateError"} => out' = out]_vars

C10_Witness ==
  /\ last.op = "finalize" /\ last.res = "ok" /\ nops = 2
  /\ {IndexDocs[i] : i \in 1..Len(IndexDocs)} \subseteq MemberNames(out[last.retpath])

\* C11: a render_chapter that fails raises to its caller and leaves the
\* build begun: the layout is still held and on disk, and the render_chapter,
\* index or compress that follows is accepted.
C11_FailedRenderStaysBegun ==
  [][\A b \in Builders :
       /\ (IsCall("render_chapter", b) /\ CanRender(b) /\ okcalls' = okcalls) =>
            /\ last'.res \in {"RenderError", "OSError"}
            /\ dirs' = dirs /\ template' = template
            /\ dirs'[b] \in DOMAIN fs'
       /\ ( /\ last.op = "render_chapter" /\ last.b = b
            /\ last.res \in {"RenderError", "OSError"}
            /\ \E op \in {"render_chapter", "index", "compress"} : IsCall(op, b) ) =>
            last'.res # "RuntimeError"]_vars

C11_Witness ==
  /\ last.op = "render_chapter" /\ last.res = "ok" /\ nops = 3
  /\ Len(chapters[last.b]) = 2 /\ Len(okcalls[last.b]) = 1
  /\ chapters[last.b][1] = chapters[last.b][2]

\* the destination names: the files named *.epub
IsDestination(p) == Len(p.name) > 0 /\ Last(p.name) = EpubExt

\* C12: compress() writes the archive under the .zip name and renames it
\* when it is closed: a file at a destination path is always a whole
\* archive, and a compress() that fails leaves the destinations as they were.
C12_NoPartialDestination ==
  [][\A b \in Builders : \A op \in {"compress", "finalize"} :
       IsCall(op, b) =>
         /\ \A p \in DOMAIN out' : IsDestination(p) => out'[p].complete
         /\ last'.res # "ok" =>
              /\ {p \in DOMAIN out' : IsDestination(p)} = {p \in DOMAIN out : IsDestination(p)}
              /\ \A p \in DOMAIN out : IsDestination(p) => out'[p] = out[p]]_vars

C12_Witness ==
  /\ last.op = "compress" /\ last.res = "OSError"
  /\ \E p, q \in DOMAIN out :
        /\ IsDestination(p) /\ out[p].complete
        /\ q = ZipPath(last.arg) /\ p = ArchivePath(last.arg) /\ ~out[q].complete

\* C13: while a coordinator holds a layout, no call but cleanup() (or
\* __exit__, which is cleanup()) changes the layout it holds or removes the
\* working directory, whether the call succeeds or fails.
C13_LayoutImmutable ==
  [][\A b \in Builders :
       (dirs[b] # NoDirs /\ ~(last'.b = b /\ last'.op \in {"cleanup", "__exit__"})) =>
         (dirs'[b] = dirs[b] /\ dirs[b] \in DOMAIN fs')]_vars

C13_Witness ==
  /\ last.op = "begin" /\ last.note = "early" /\ nops = 3
  /\ Len(chapters[last.b]) = 1 /\ okcalls[last.b] = <<>>
  /\ dirs[last.b] \in DOMAIN fs /\ Cardinality(DOMAIN fs) = 1

\* C14 (as claimed): a render_chapter call that fails leaves the
\* accumulator as it was.
C14_FailedRenderNotRecorded ==
  [][\A b \in Builders :
       (IsCall("render_chapter", b) /\ last'.res # "ok") => chapters' = chapters]_vars

\* the navigation and manifest documents, and the files of b's layout
NavDocs == {IndexDocs[i] : i \in 1..Len(IndexDocs)}
TreeOf(b) == DOMAIN fs[dirs[b]]

\* C15: compress() asks only for a layout: before index() it succeeds and
\* its archive lacks book.ncx and book.opf; a successful index() writes both,
\* they stay in the layout until cleanup(), and every archive compressed
\* while they are there holds both.
C15_IndexOrderNotEnforced ==
  [][\A b \in Builders :
       /\ (IsCall("compress", b) /\ Began(b)) =>
            /\ last'.res # "RuntimeError"
            /\ (last'.res = "ok" /\ NavDocs \cap TreeOf(b) = {}) =>
                 NavDocs \cap MemberNames(out'[last'.retpath]) = {}
            /\ (last'.res = "ok" /\ NavDocs \subseteq TreeOf(b)) =>
                 NavDocs \subseteq MemberNames(out'[last'.retpath])
       /\ (IsCall("index", b) /\ last'.res = "ok") => NavDocs \subseteq DOMAIN fs'[dirs'[b]]
       /\ ( /\ Began(b) /\ NavDocs \subseteq TreeOf(b)
            /\ ~(last'.b = b /\ last'.op \in {"cleanup", "__exit__"}) ) =>
            NavDocs \subseteq DOMAIN fs'[dirs'[b]]]_vars

C15_Witness ==
  /\ Produced /\ last.op = "compress" /\ nops = 2
  /\ NavDocs \cap MemberNames(Archive) = {}
  /\ <<"OEBPS", "coverpage.xhtml">> \in MemberNames(Archive)

\* C16: render_chapter checks no link against the earlier ones: every
\* accepted call is appended to the accumulator, and after a successful call
\* the file at its link holds that call's page, whatever was there before.
C16_LinkNotUnique ==
  [][\A b \in Builders :
       (IsCall("render_chapter", b) /\ CanRender(b)) =>
         /\ Len(chapters'[b]) = Len(chapters[b]) + 1
         /\ SubSeq(chapters'[b], 1, Len(chapters[b])) = chapters[b]
         /\ last'.res = "ok" =>
              fs'[dirs[b]][ChapterPath(Last(chapters'[b]).assign)] = Last(chapters'[b]).chapter]_vars

C16_Witness ==
  /\ last.op = "render_chapter" /\ last.res = "ok"
  /\ LET c == chapters[last.b] IN
       /\ Len(c) = 2 /\ okcalls[last.b] = c
       /\ c[1].assign.link = c[2].assign.link /\ c[1].chapter # c[2].chapter
       /\ fs[dirs[last.b]][ChapterPath(c[2].assign)] = c[2].chapter

\* C17: begin() of a coordinator whose working directory is held by another
\* coordinator raises (OSError from epub_dirs, once its template is loaded),
\* leaves it without a layout and leaves the directory and the other
\* coordinator as they were; its cleanup() then changes nothing.
C17_SecondBeginFails ==
  [][\A b \in Builders : \A c \in Builders \ {b} :
       (dirs[b] = NoDirs /\ dirs[c] = BaseOf(b)) =>
         /\ IsCall("begin", b) =>
              /\ last'.res \in {"OSError", "TemplateError"}
              /\ template'[b] => last'.res = "OSError"
              /\ dirs' = dirs /\ fs' = fs
         /\ IsCall("cleanup", b) => (dirs' = dirs /\ fs' = fs /\ last'.res = "ok")]_vars

C17_Witness ==
  /\ last.op = "cleanup" /\ last.b = "b2" /\ last.note = "noop" /\ nops = 3
  /\ template["b2"] /\ dirs["b2"] = NoDirs
  /\ dirs["b1"] = WorkDir /\ <<"mimetype">> \in DOMAIN fs[WorkDir]

\* the archive path the claim describes for a destination
ClaimedPath(fpath) ==
  IF fpath = NoDest
    THEN [dir |-> Cwd, name |-> Title \o <<EpubExt>>]
    ELSE [dir |-> fpath.dir,
          name |-> IF Last(fpath.name) = EpubExt THEN fpath.name ELSE fpath.name \o <<EpubExt>>]

\* C18 (as claimed): compress() returns the path of the finished archive:
\* the title with .epub in the current directory, or the destination with
\* .epub added unless it ends in it.
C18_ArchivePathResolved ==
  Produced =>
    /\ last.retpath = ClaimedPath(last.arg)
    /\ last.retpath \in DOMAIN out /\ out[last.retpath].complete

\* C19 (as claimed): a coordinator that holds a layout holds a complete one:
\* every file begin() writes is there and the cover is rendered.
C19_BegunLayoutComplete ==
  \A b \in Builders :
    dirs[b] # NoDirs =>
      /\ \A i \in 1..Len(BeginSteps) : BeginSteps[i].path \in TreeOf(b)
      /\ fs[dirs[b]][<<"OEBPS", "coverpage.xhtml">>] = "cover"

\* C20 (as claimed): when index() has rendered its documents, every entry
\* of the accumulator has its page document in the layout.
C20_IndexedPagesExist ==
  \A b \in Builders :
    (last.b = b /\ last.op \in {"index", "finalize"} /\ last.res = "ok" /\ dirs[b] # NoDirs) =>
      \A i \in 1..Len(chapters[b]) : ChapterPath(chapters[b][i].assign) \in TreeOf(b)
====
